---- MODULE Spec2Model ----
(***************************************************************************)
(* ExperimentalData (src/src/experiments.pyx): the construction of the     *)
(* test set, the training folds and the grid-search folds out of the       *)
(* identifier-to-label mapping that distributional_info returns.           *)
(*                                                                         *)
(* One behaviour is one call of ExperimentalData.__init__.  The corpus     *)
(* (db), the constructor arguments (args) and the behaviour of the numpy   *)
(* build on a non-integer slice bound (float_index) are fixed by Init.     *)
(***************************************************************************)
EXTENDS Integers, Sequences, FiniteSets, TLC

(***************************************************************************)
(* Bounds of the model.                                                    *)
(***************************************************************************)
\* documents in a corpus of the small family
MaxIds == 3
\* folds / grid_search_folds requested
MaxFolds == 4
\* fold_size / grid_search_fold_size / test_size requested (small family)
MaxSize == 3
\* documents in a corpus of the large family (one dominant label)
MaxLargeIds == 11

Labels == {1, 2}
\* the keys of APPID_DICT
Games == {1, 2}

Min(a, b) == IF a < b THEN a ELSE b

RECURSIVE Gcd(_, _)
Gcd(a, b) == IF b = 0 THEN a ELSE Gcd(b, a % b)

\* ceil(a/b) for a >= 0, b > 0
CeilDiv(a, b) == (a + b - 1) \div b

\* s[:n] for an integer n >= 0
Prefix(s, n) == SubSeq(s, 1, Min(n, Len(s)))

RECURSIVE Concat(_)
Concat(ss) == IF ss = <<>> THEN <<>> ELSE Head(ss) \o Concat(Tail(ss))

Range(s) == {s[k] : k \in DOMAIN s}

\* ndarray.sort(): ascending order, equal elements kept
SortArray(s) ==
    LET n == Len(s)
        Before(i, j) == s[i] < s[j] \/ (s[i] = s[j] /\ i < j)
        Rank(j) == 1 + Cardinality({i \in 1..n : Before(i, j)})
    IN [r \in 1..n |-> s[CHOOSE j \in 1..n : Rank(j) = r]]

\* np.array([... for _id in dict if ...]) followed by .sort()
SortSet(S) ==
    [r \in 1..Cardinality(S) |->
        CHOOSE x \in S : Cardinality({y \in S : y < x}) = r - 1]

(***************************************************************************)
(* np.random.RandomState(12345) and prng.shuffle.  The Mersenne Twister    *)
(* stream is replaced by a linear congruential stream; the shuffle is      *)
(* numpy's: for i from the last index down to the second, swap element i   *)
(* with element j drawn from the stream among the first i elements.  What  *)
(* is kept: the permutation is a function of the seed, of the length and   *)
(* of the shuffles made before it in the same pass.                        *)
(***************************************************************************)
Seed == 12345

Lcg(x) == (x * 75 + 74) % 65537

RECURSIVE ShuffleFrom(_, _, _)
ShuffleFrom(s, i, st) ==
    IF i < 2 THEN [seq |-> s, prng |-> st]
    ELSE LET st2 == Lcg(st)
             j == 1 + (st2 % i)
         IN ShuffleFrom([s EXCEPT ![i] = s[j], ![j] = s[i]], i - 1, st2)

Shuffle(s, st) == ShuffleFrom(s, Len(s), st)

(***************************************************************************)
(* distributional_info: the documents of the given games in cursor order,  *)
(* the identifier-to-label dictionary and the FreqDist of the labels.      *)
(* A FreqDist is modelled as the sequence of its (label, count) items in   *)
(* iteration order, which is the order of first occurrence.                *)
(***************************************************************************)
Find(docs, games) == SelectSeq(docs, LAMBDA d : d.game \in games)

IdStringsLabelsDict(samples) ==
    [i \in {samples[k].id_string : k \in DOMAIN samples} |->
        LET last == CHOOSE k \in DOMAIN samples :
                        /\ samples[k].id_string = i
                        /\ \A j \in DOMAIN samples :
                              samples[j].id_string = i => j <= k
        IN samples[last].label]

RECURSIVE FirstSeen(_, _)
FirstSeen(samples, seen) ==
    IF samples = <<>> THEN <<>>
    ELSE IF Head(samples).label \in seen
         THEN FirstSeen(Tail(samples), seen)
         ELSE <<Head(samples).label>>
              \o FirstSeen(Tail(samples), seen \cup {Head(samples).label})

\* a variant of FreqDist: every label seen is counted once
FreqDistOnce(samples) ==
    LET order == FirstSeen(samples, {})
    IN [k \in DOMAIN order |-> [label |-> order[k], count |-> 1]]

\* FreqDist(labels): the labels in the order first seen, with their counts
FreqDist(samples) ==
    LET order == FirstSeen(samples, {})
    IN [k \in DOMAIN order |->
          [label |-> order[k],
           count |-> Cardinality({j \in DOMAIN samples :
                                     samples[j].label = order[k]})]]

\* raises ValueError('No review documents were found!') on no samples
distributional_info(docs, games) ==
    LET samples == Find(docs, games)
    IN IF samples = <<>>
       THEN [raised |-> TRUE, id_strings_labels_dict |-> <<>>,
             labels_fdist |-> <<>>]
       ELSE [raised |-> FALSE,
             id_strings_labels_dict |-> IdStringsLabelsDict(samples),
             labels_fdist |-> FreqDist(samples)]

RECURSIVE FdistN(_)
FdistN(fd) == IF fd = <<>> THEN 0 ELSE Head(fd).count + FdistN(Tail(fd))

FdistCount(fd, l) ==
    IF \E k \in DOMAIN fd : fd[k].label = l
    THEN fd[CHOOSE k \in DOMAIN fd : fd[k].label = l].count
    ELSE 0

\* sorted(labels_fdist, key=lambda _label: labels_fdist[_label]): stable
SortedLabels(fd) ==
    LET n == Len(fd)
        Before(i, j) == \/ fd[i].count < fd[j].count
                        \/ (fd[i].count = fd[j].count /\ i < j)
        Rank(j) == 1 + Cardinality({i \in 1..n : Before(i, j)})
    IN [r \in 1..n |-> fd[CHOOSE j \in 1..n : Rank(j) = r].label]

\* the first loop of a sampling pass: per label, in the given order, the
\* sorted and shuffled identifiers of the label (one stream for the pass)
RECURSIVE ShuffledLabelIds(_, _, _)
ShuffledLabelIds(labels, dict, st) ==
    IF labels = <<>> THEN [labels_ids |-> <<>>, prng |-> st]
    ELSE LET l == Head(labels)
             sh == Shuffle(SortSet({i \in DOMAIN dict : dict[i] = l}), st)
             rest == ShuffledLabelIds(Tail(labels), dict, sh.prng)
         IN [labels_ids |-> <<[label |-> l, ids |-> sh.seq]>>
                            \o rest.labels_ids,
             prng |-> rest.prng]

(***************************************************************************)
(* Sizes.  A target size is the requested integer S, or, after a shrink,   *)
(* the double factor*S with factor = 1.0 - ((n - a)/n) for the label that  *)
(* fell shortest (a identifiers for a quota of n).  A factor is kept as    *)
(* the pair <<a, n>>; <<1, 1>> stands for the initial 1.0.  The doubles    *)
(* are compared and rounded as IEEE-754 does: everywhere the result is the *)
(* exact one except for the arguments listed in CeilRoundsUp,              *)
(* ProductRoundsDown and at a shrink of exactly 1/10 (the three tables     *)
(* cover every count and size up to 14).                                   *)
(***************************************************************************)
One == <<1, 1>>

Reduced(f) == LET g == Gcd(f[1], f[2]) IN <<f[1] \div g, f[2] \div g>>

\* new_factor < factor
FactorLess(x, y) == x[1] * y[2] < y[1] * x[2]

\* <<c, N, a, n, S>> (c/N and a/n in lowest terms) for which
\* ceil((c/N) * ((1.0 - ((n - a)/n)) * S)) is one more than the exact value
CeilRoundsUp ==
    {
    <<1,1,1,3,9>>, <<1,1,1,7,7>>, <<1,1,1,7,14>>, <<1,1,1,9,9>>,
    <<1,1,1,11,11>>, <<1,1,1,12,12>>, <<1,1,2,3,9>>, <<1,1,3,10,10>>,
    <<1,2,1,7,14>>, <<1,2,2,3,9>>, <<3,4,1,9,12>>, <<3,4,2,3,10>>,
    <<3,5,1,3,5>>, <<3,5,1,3,10>>, <<3,5,2,3,5>>, <<3,5,2,3,10>>,
    <<3,5,5,6,14>>, <<3,10,1,3,10>>, <<3,10,2,3,5>>, <<3,10,2,3,10>>,
    <<3,13,1,3,13>>, <<3,13,2,3,13>>, <<5,6,2,3,9>>, <<5,6,2,5,6>>,
    <<5,6,2,5,12>>, <<5,6,3,5,14>>, <<5,6,3,10,12>>, <<5,6,4,5,6>>,
    <<5,6,4,5,12>>, <<5,6,9,10,12>>, <<5,7,2,5,7>>, <<5,7,2,5,14>>,
    <<5,7,3,10,14>>, <<5,7,4,5,7>>, <<5,7,4,5,14>>, <<5,8,2,5,12>>,
    <<5,8,4,5,6>>, <<5,8,4,5,12>>, <<5,8,4,5,14>>, <<5,9,3,10,12>>,
    <<5,9,9,10,12>>, <<5,12,2,5,6>>, <<5,12,2,5,12>>, <<5,12,4,5,6>>,
    <<5,12,4,5,12>>, <<5,14,2,5,7>>, <<5,14,2,5,14>>, <<5,14,4,5,7>>,
    <<5,14,4,5,14>>, <<6,7,1,12,14>>, <<6,13,1,3,13>>, <<6,13,2,3,13>>,
    <<6,13,5,6,13>>, <<7,8,1,7,8>>, <<7,9,1,7,9>>, <<7,9,3,7,9>>,
    <<7,9,6,7,9>>, <<7,10,1,7,10>>, <<7,10,3,7,10>>, <<7,10,6,7,10>>,
    <<7,11,1,7,11>>, <<7,12,1,7,12>>, <<7,12,3,7,8>>, <<7,12,3,7,12>>,
    <<7,12,6,7,8>>, <<7,12,6,7,10>>, <<7,12,6,7,12>>, <<7,13,1,7,13>>,
    <<9,10,1,3,10>>, <<9,10,1,9,10>>, <<9,10,2,3,5>>, <<9,10,2,3,10>>,
    <<9,10,5,9,14>>, <<9,11,1,3,11>>, <<9,11,1,9,11>>, <<9,11,2,3,11>>,
    <<9,11,5,9,11>>, <<9,13,1,3,13>>, <<9,13,1,9,13>>, <<9,13,2,3,13>>,
    <<9,14,1,3,14>>, <<9,14,1,9,14>>, <<9,14,2,3,7>>, <<9,14,2,3,14>>,
    <<9,14,5,9,14>>, <<9,14,7,9,12>>, <<9,14,7,9,14>>, <<10,11,3,10,11>>,
    <<10,13,3,10,13>>, <<10,13,9,10,13>>, <<11,12,1,11,12>>,
    <<11,13,1,11,13>>, <<11,13,5,11,13>>, <<11,13,7,11,13>>,
    <<11,14,1,11,14>>, <<12,13,1,3,13>>, <<12,13,1,12,13>>, <<12,13,2,3,13>>,
    <<12,13,5,6,13>>, <<13,14,2,13,14>>, <<13,14,4,13,14>>,
    <<13,14,8,13,14>>
    }

\* <<a, n, S>> (a/n in lowest terms) for which (1.0 - ((n - a)/n)) * S is
\* just below the integer a*S/n
ProductRoundsDown ==
    {
    <<1,5,5>>, <<1,5,10>>, <<1,6,6>>, <<1,6,12>>, <<1,10,10>>, <<1,13,13>>,
    <<1,14,14>>, <<2,11,11>>, <<3,13,13>>, <<5,14,14>>, <<7,12,12>>
    }

\* (1.0 - factor) < 0.5
ShrinkUnderHalf(f) == 2 * (f[2] - f[1]) < f[2]

\* (1.0 - factor) < 0.1; 1.0 - (1.0 - 1/10) is 0.09999999999999998
ShrinkUnderTenth(f) ==
    \/ 10 * (f[2] - f[1]) < f[2]
    \/ Reduced(f) = <<9, 10>>

IntSize(S) == [S |-> S, factor |-> One]

\* factor*_fold_size
Shrunk(S, f) == [S |-> S, factor |-> f]

\* int(np.ceil(label_freq*size)) with label_freq = labels_fdist.freq(label)
Quota(fd, l, size) ==
    LET c == FdistCount(fd, l)
        N == FdistN(fd)
        f == size.factor
        fr == Reduced(<<c, N>>)
    IN IF f = One THEN CeilDiv(c * size.S, N)
       ELSE CeilDiv(c * f[1] * size.S, N * f[2])
            + (IF <<fr[1], fr[2], Reduced(f)[1], Reduced(f)[2], size.S>>
                    \in CeilRoundsUp THEN 1 ELSE 0)

\* len(array) > size
Exceeds(len, size) ==
    LET f == size.factor
    IN IF f = One THEN len > size.S
       ELSE \/ len * f[2] > f[1] * size.S
            \/ /\ len * f[2] = f[1] * size.S
               /\ <<Reduced(f)[1], Reduced(f)[2], size.S>> \in ProductRoundsDown

\* the integer a non-integer slice bound is truncated to
Truncated(size) ==
    LET f == size.factor
    IN IF f = One THEN size.S
       ELSE ((f[1] * size.S) \div f[2])
            - (IF /\ (f[1] * size.S) % f[2] = 0
                  /\ <<Reduced(f)[1], Reduced(f)[2], size.S>>
                         \in ProductRoundsDown
               THEN 1 ELSE 0)

\* a variant of ShrinkFactor: the factor of the last short label is kept
RECURSIVE ShrinkFactorOfLast(_, _, _, _)
ShrinkFactorOfLast(lids, fd, S, factor) ==
    IF lids = <<>> THEN factor
    ELSE LET n == Quota(fd, Head(lids).label, IntSize(S))
             a == Len(Prefix(Head(lids).ids, n))
             f2 == IF a < n THEN <<a, n>> ELSE factor
         IN ShrinkFactorOfLast(Tail(lids), fd, S, f2)

\* the loop that finds the factor (lines 1093-1108 and 1217-1232)
RECURSIVE ShrinkFactor(_, _, _, _)
ShrinkFactor(lids, fd, S, factor) ==
    IF lids = <<>> THEN factor
    ELSE LET n == Quota(fd, Head(lids).label, IntSize(S))
             a == Len(Prefix(Head(lids).ids, n))
             f2 == IF a < n /\ FactorLess(<<a, n>>, factor)
                   THEN <<a, n>> ELSE factor
         IN ShrinkFactor(Tail(lids), fd, S, f2)

\* the loop that collects each label's identifiers up to its quota
StratifiedIds(lids, fd, size) ==
    Concat([k \in DOMAIN lids |->
              Prefix(lids[k].ids, Quota(fd, lids[k].label, size))])

\* int(np.ceil(size/len(labels_fdist)))
EvenQuota(S, fd) == CeilDiv(S, Len(fd))

\* a variant of EvenFirstActual: the quota, whatever the first label has
EvenFirstQuota(lids, S, fd) == EvenQuota(S, fd)

\* len(all_label_ids[:n_label_data]) of the first label
EvenFirstActual(lids, S, fd) == Len(Prefix(lids[1].ids, EvenQuota(S, fd)))

\* every label contributes all_label_ids[:n_label_min]
EvenIds(lids, n_label_min) ==
    Concat([k \in DOMAIN lids |-> Prefix(lids[k].ids, n_label_min)])

Returned(ids, size) == [outcome |-> "returned", ids |-> ids, size |-> size]

Raised(exc, size) == [outcome |-> exc, ids |-> <<>>, size |-> size]

\* a variant of ShuffleAndTruncate: the array is not cut to the size
ShuffleOnly(ids, st, size, fi) ==
    Returned(Shuffle(SortArray(ids), st).seq, size)

\* sort, shuffle, and cut to the size (lines 1155-1161 and 1293-1297); a
\* slice bound that is a double is an error or is truncated, by the build
ShuffleAndTruncate(ids, st, size, fi) ==
    LET arr == Shuffle(SortArray(ids), st).seq
    IN IF ~Exceeds(Len(arr), size) THEN Returned(arr, size)
       ELSE IF size.factor = One THEN Returned(Prefix(arr, size.S), size)
       ELSE IF fi = "TypeError" THEN Raised("TypeError", size)
       ELSE Returned(Prefix(arr, Truncated(size)), size)

(***************************************************************************)
(* ExperimentalData._make_test_set on the mapping and FreqDist of the test *)
(* games.  The result carries the value left in self.test_size.            *)
(***************************************************************************)
make_test_set(dict, fd, S, sampling, fi) ==
    LET pass == ShuffledLabelIds(SortedLabels(fd), dict, Seed)
        lids == pass.labels_ids
    IN IF sampling = "stratified"
       THEN LET factor == ShrinkFactor(lids, fd, S, One)
                size == IF FactorLess(factor, One)
                        THEN Shrunk(S, factor) ELSE IntSize(S)
            IN IF FactorLess(factor, One) /\ ShrinkUnderHalf(factor)
               THEN Raised("ValueError", IntSize(S))
               ELSE ShuffleAndTruncate(StratifiedIds(lids, fd, size),
                                       pass.prng, size, fi)
       ELSE LET n_label_min == EvenFirstActual(lids, S, fd)
            IN IF n_label_min = 0
               THEN Raised("ValueError", IntSize(S))
               ELSE ShuffleAndTruncate(EvenIds(lids, n_label_min),
                                       pass.prng, IntSize(S), fi)

\* a variant of NoSamplesLeft: the test on the folds collected is inverted
NoSamplesLeftInverted(n_folds_collected, size) ==
    IF n_folds_collected # 0 THEN Raised("ValueError", size)
    ELSE Returned(<<>>, size)

\* if not n_label_data_actual (lines 1282-1286): an error when no fold was
\* collected yet, the empty list otherwise
NoSamplesLeft(n_folds_collected, size) ==
    IF n_folds_collected = 0 THEN Raised("ValueError", size)
    ELSE Returned(<<>>, size)

(***************************************************************************)
(* ExperimentalData._generate_training_fold on self.id_strings_labels and  *)
(* self.labels_fdist.  len(n_folds_collected) is len() of an int: the      *)
(* branch taken on a shrink under 10% raises TypeError whatever the number *)
(* of folds collected.                                                     *)
(***************************************************************************)
generate_training_fold(dict, fd, S, n_folds_collected, n_folds_needed, sampling, fi) ==
    LET pass == ShuffledLabelIds(SortedLabels(fd), dict, Seed)
        lids == pass.labels_ids
    IN IF sampling = "stratified"
       THEN LET factor == ShrinkFactor(lids, fd, S, One)
                size == IF FactorLess(factor, One)
                        THEN Shrunk(S, factor) ELSE IntSize(S)
            IN IF /\ FactorLess(factor, One)
                  /\ n_folds_needed # 1
                  /\ ShrinkUnderTenth(factor)
               THEN Raised("TypeError", IntSize(S))
               ELSE ShuffleAndTruncate(StratifiedIds(lids, fd, size),
                                       pass.prng, size, fi)
       ELSE LET n_label_min == EvenFirstActual(lids, S, fd)
            IN IF n_label_min = 0
               THEN NoSamplesLeft(n_folds_collected, IntSize(S))
               ELSE ShuffleAndTruncate(EvenIds(lids, n_label_min),
                                       pass.prng, IntSize(S), fi)

\* a variant of Without: nothing is deleted
WithoutNothing(dict, ids) == dict

\* a variant of Without: only the first identifier is deleted
WithoutFirst(dict, ids) ==
    [i \in (DOMAIN dict) \ (IF ids = <<>> THEN {} ELSE {ids[1]}) |-> dict[i]]

\* a variant of Without: the lowest identifier of the pool goes as well
WithoutOneMore(dict, ids) ==
    [i \in (DOMAIN dict) \ (Range(ids) \cup
            {j \in DOMAIN dict : \A m \in DOMAIN dict : j <= m}) |-> dict[i]]

\* for _id in fold_set: del self.id_strings_labels[_id]
Without(dict, ids) == [i \in (DOMAIN dict) \ Range(ids) |-> dict[i]]

\* a variant of EnoughFolds: more than 75% is asked for
EnoughFoldsStrict(folds_collected, folds) == 4 * folds_collected > 3 * folds

\* folds_collected >= 0.75*folds
EnoughFolds(folds_collected, folds) == 4 * folds_collected >= 3 * folds

(***************************************************************************)
(* The state: the corpus, the constructor's arguments, the build, the      *)
(* object's attributes, the locals of the running _generate_dataset, and   *)
(* the history of the sampling passes made (calls).                        *)
(***************************************************************************)
VARIABLES db, args, float_index, pc, error,
          test_size, id_strings_labels, labels_fdist, test_set,
          training_set, grid_search_set, num_datasets,
          dataset, folds_collected, attempts, stopped, calls,
          bins, value, bin, query, generator

vars == <<db, args, float_index, pc, error,
          test_size, id_strings_labels, labels_fdist, test_set,
          training_set, grid_search_set, num_datasets,
          dataset, folds_collected, attempts, stopped, calls,
          bins, value, bin, query, generator>>

\* the state of the direct calls of get_bin_ranges, get_bin,
\* distributional_info and evenly_distribute_samples: the bin ranges at
\* hand, the value binned last, its bin, the last call of
\* distributional_info, and the generator of evenly_distribute_samples
utilities == <<bins, value, bin, query, generator>>

NoBins ==
    [source |-> "none", min |-> 0, max |-> 0, nbins |-> 0,
     cdivision |-> FALSE, raised |-> FALSE, ranges |-> <<>>]

NoValue == <<0, 99>>

NoQuery == [outcome |-> "none"]

NoGenerator == [state |-> "none"]

\* no direct call is made during a construction
Idle ==
    /\ bins = NoBins
    /\ value = NoValue
    /\ bin = 0
    /\ query = NoQuery
    /\ generator = NoGenerator

\* an attribute that is None, or that holds a list of folds
None == [none |-> TRUE, folds |-> <<>>]

Some(folds) == [none |-> FALSE, folds |-> folds]

\* self.test_games = test_games if test_games else self.games
TestGames == IF args.test_games = {} THEN args.games ELSE args.test_games

\* a variant of GamesEqual: one game in common is enough
GamesInCommonOnly == \E game \in TestGames : game \in args.games

\* self._games_test_games_equal
GamesEqual == TestGames = args.games

(***************************************************************************)
(* The corpora and the arguments the model runs on.  Identifiers are 1..n  *)
(* in cursor order; a small corpus lists the documents of game 1 by label, *)
(* then at most one document of game 2.                                    *)
(***************************************************************************)
Doc(i, l, g) == [id_string |-> i, label |-> l, game |-> g]

SmallCorpora ==
    {[i \in DOMAIN c |-> Doc(i, c[i][1], c[i][2])] :
        c \in {c \in UNION {[1..n -> Labels \X Games] : n \in 0..MaxIds} :
                  /\ \A i \in 1..(Len(c) - 1) :
                         /\ c[i][2] = 1
                         /\ c[i + 1][2] = 1 => c[i][1] <= c[i + 1][1]}}

\* game 1 only, label 1 but for the last `rare` documents
LargeCorpora ==
    {[i \in 1..n |-> Doc(i, IF i > n - rare THEN 2 ELSE 1, 1)] :
        n \in (MaxLargeIds - 2)..MaxLargeIds, rare \in 0..1}

\* corpora in which the last document repeats the id_string of the first
DuplicateCorpora ==
    {[c EXCEPT ![Len(c)].id_string = 1] : c \in {c \in SmallCorpora : Len(c) >= 2}}

SmallArgs ==
    {a \in [games : {{1}}, test_games : {{}, {2}, {1, 2}},
            folds : 0..MaxFolds, fold_size : 0..MaxSize,
            grid_search_folds : 0..1, grid_search_fold_size : {1},
            test_size : 0..MaxSize, sampling : {"even", "stratified"},
            batch_size : {50}, bin_ranges : {0}, test_bin_ranges : {0}] :
        /\ a.test_size = 0 => a.test_games = {}
        /\ a.folds = 0 => a.fold_size = 0
        /\ a.grid_search_folds = 0 => a.grid_search_fold_size = 1}

LargeArgs ==
    [games : {{1}}, test_games : {{}},
     folds : 1..2, fold_size : (MaxLargeIds - 2)..(MaxLargeIds + 1),
     grid_search_folds : 0..1, grid_search_fold_size : {1},
     test_size : 0..1, sampling : {"even", "stratified"},
     batch_size : {50}, bin_ranges : {0}, test_bin_ranges : {0}]

DuplicateArgs ==
    {a \in [games : {{1}}, test_games : {{}, {2}, {1, 2}},
            folds : 1..2, fold_size : 1..2,
            grid_search_folds : {0}, grid_search_fold_size : {1},
            test_size : 0..2, sampling : {"even", "stratified"},
            batch_size : {50}, bin_ranges : {0}, test_bin_ranges : {0}] :
        a.test_size = 0 => a.test_games = {}}

ValidArgs ==
    [games |-> {1}, test_games |-> {}, folds |-> 1, fold_size |-> 1,
     grid_search_folds |-> 0, grid_search_fold_size |-> 1,
     test_size |-> 0, sampling |-> "stratified",
     batch_size |-> 50, bin_ranges |-> 0, test_bin_ranges |-> 0]

\* arguments the validation of __init__ rejects or has to look at
EdgeArgs ==
    {[ValidArgs EXCEPT !.games = {}],
     [ValidArgs EXCEPT !.games = {3}],
     [ValidArgs EXCEPT !.test_games = {3}, !.test_size = 1],
     [ValidArgs EXCEPT !.batch_size = 0],
     [ValidArgs EXCEPT !.folds = -1],
     [ValidArgs EXCEPT !.fold_size = -1],
     [ValidArgs EXCEPT !.grid_search_folds = -1],
     [ValidArgs EXCEPT !.grid_search_fold_size = -1],
     [ValidArgs EXCEPT !.test_size = -1],
     [ValidArgs EXCEPT !.sampling = "random"]}

\* arguments with and without bin ranges and a test set, for every relation
\* of the test games to the training games
BinRangeArgs ==
    {[ValidArgs EXCEPT !.test_games = tg, !.test_size = ts,
                       !.bin_ranges = b, !.test_bin_ranges = tb,
                       !.sampling = sm] :
        tg \in {{}, {2}, {1, 2}}, ts \in 0..1, b \in 0..2, tb \in 0..2,
        sm \in {"even", "stratified"}}

\* four documents of game 1, two of each label, in any order
EvenSplitCorpora ==
    {[i \in 1..4 |-> Doc(i, c[i], 1)] :
        c \in {c \in [1..4 -> Labels] :
                  Cardinality({i \in 1..4 : c[i] = 1}) = 2}}

\* a test set of one document, then folds asked far larger than the corpus
OversizedArgs ==
    {[ValidArgs EXCEPT !.test_size = 1, !.folds = f, !.fold_size = 14] :
        f \in 1..2}

\* the corpus of the documented example of even sampling: 90 documents of
\* label 1 and 10 of label 2, and one fold of 20 asked for
ExampleCorpus == [i \in 1..100 |-> Doc(i, IF i > 90 THEN 2 ELSE 1, 1)]

ExampleArgs == [ValidArgs EXCEPT !.sampling = "even", !.fold_size = 20]

Start ==
    /\ pc = "__init__"
    /\ error = "none"
    /\ test_size = IntSize(0)
    /\ id_strings_labels = <<>>
    /\ labels_fdist = <<>>
    /\ test_set = <<>>
    /\ training_set = None
    /\ grid_search_set = None
    /\ num_datasets = -1
    /\ dataset = <<>>
    /\ folds_collected = 0
    /\ attempts = 0
    /\ stopped = FALSE
    /\ calls = <<>>

Init ==
    /\ \/ db \in SmallCorpora /\ args \in SmallArgs \cup EdgeArgs
                                          \cup BinRangeArgs
       \/ db \in LargeCorpora /\ args \in LargeArgs
       \/ db \in DuplicateCorpora /\ args \in DuplicateArgs
       \/ db \in EvenSplitCorpora /\ args \in OversizedArgs
       \/ db = ExampleCorpus /\ args = ExampleArgs
    /\ float_index \in {"truncated", "TypeError"}
    /\ args.sampling # "stratified" => float_index = "truncated"
    /\ Start
    /\ Idle

(***************************************************************************)
(* __init__, lines 979-1044: the validation of the arguments.  bin_ranges  *)
(* and test_bin_ranges are kept as their numbers of bins (0: not given).   *)
(***************************************************************************)
\* a variant of BinRangesInvalid: test_bin_ranges alone are let through
BinRangesInvalidLax ==
    args.bin_ranges # 0 /\ args.bin_ranges # args.test_bin_ranges

\* lines 1011-1024, reached when the games differ
BinRangesInvalid ==
    \/ /\ args.bin_ranges # 0
       /\ \/ args.test_bin_ranges = 0
          \/ args.bin_ranges # args.test_bin_ranges
    \/ /\ args.bin_ranges = 0
       /\ args.test_bin_ranges # 0

\* a variant of InvalidArgs: the sign of the counts and sizes is not looked at
InvalidArgsUnsigned ==
    \/ args.games = {}
    \/ \E g \in args.games \cup TestGames : g \notin Games
    \/ args.batch_size < 1
    \/ ~GamesEqual /\ BinRangesInvalid
    \/ args.sampling \notin {"even", "stratified"}

InvalidArgs ==
    \/ args.games = {}
    \/ \E g \in args.games \cup TestGames : g \notin Games
    \/ args.batch_size < 1
    \/ args.folds < 0
    \/ args.fold_size < 0
    \/ args.grid_search_folds < 0
    \/ args.grid_search_fold_size < 0
    \/ args.test_size < 0
    \/ /\ ~GamesEqual
       /\ \/ args.test_size < 0
          \/ BinRangesInvalid
    \/ args.sampling \notin {"even", "stratified"}

\* a variant of Raise: the error is noted and the construction goes on
RaiseAndGoOn(exc) ==
    /\ pc' = "done"
    /\ error' = exc

\* raise: the exception leaves __init__ and no object is returned
Raise(exc) ==
    /\ pc' = "raised"
    /\ error' = exc

Validate ==
    /\ pc = "__init__"
    /\ IF InvalidArgs
       THEN Raise("ValueError") /\ UNCHANGED test_size
       ELSE /\ pc' = "make_test_set"
            /\ test_size' = IntSize(args.test_size)
            /\ UNCHANGED error
    /\ UNCHANGED <<db, args, float_index, id_strings_labels, labels_fdist,
                   test_set, training_set, grid_search_set, num_datasets,
                   dataset, folds_collected, attempts, stopped, calls>>
    /\ UNCHANGED utilities

\* a variant of NonZero: a test set is drawn whatever the size
NonZeroAlways(size) == TRUE

\* the truth value of self.test_size
NonZero(size) == size.S # 0 /\ size.factor[1] # 0

Call(op, grid_search, S, collected, needed, dict, fd, r) ==
    [op |-> op, grid_search |-> grid_search, S |-> S,
     n_folds_collected |-> collected, n_folds_needed |-> needed,
     dict |-> dict, fdist |-> fd, outcome |-> r.outcome, ids |-> r.ids,
     size |-> r.size]

(***************************************************************************)
(* _construct_layered_dataset, lines 1361-1362, with _make_test_set.       *)
(***************************************************************************)
MakeTestSet ==
    /\ pc = "make_test_set"
    /\ IF ~NonZero(test_size)
       THEN /\ pc' = "distributional_info"
            /\ UNCHANGED <<error, test_size, id_strings_labels, labels_fdist,
                           test_set, calls>>
       ELSE LET info == distributional_info(db, TestGames)
                dict == info.id_strings_labels_dict
                fd == info.labels_fdist
                r == make_test_set(dict, fd, args.test_size, args.sampling,
                                   float_index)
            IN IF info.raised
               THEN /\ Raise("ValueError")
                    /\ UNCHANGED <<test_size, id_strings_labels,
                                   labels_fdist, test_set, calls>>
               ELSE /\ IF GamesEqual
                       THEN /\ id_strings_labels' = dict
                            /\ labels_fdist' = fd
                       ELSE UNCHANGED <<id_strings_labels, labels_fdist>>
                    /\ calls' = Append(calls, Call("test", FALSE,
                                   args.test_size, 0, 1, dict, fd, r))
                    /\ test_size' = r.size
                    /\ IF r.outcome = "returned"
                       THEN /\ test_set' = r.ids
                            /\ pc' = "distributional_info"
                            /\ UNCHANGED error
                       ELSE /\ Raise(r.outcome)
                            /\ UNCHANGED test_set
    /\ UNCHANGED <<db, args, float_index, training_set, grid_search_set,
                   num_datasets, dataset, folds_collected, attempts, stopped>>
    /\ UNCHANGED utilities

\* a variant of InCommon: only identical sets of games count
InCommonIfEqual == NonZero(test_size) /\ GamesEqual

\* self.test_size and any(game in self.games for game in self.test_games)
InCommon == NonZero(test_size) /\ \E game \in TestGames : game \in args.games

(***************************************************************************)
(* _construct_layered_dataset, lines 1364-1388: the mapping and FreqDist   *)
(* of the training games, unless cached, and the removal of the test set.  *)
(* self.labels and self.labels_id_strings, which no later step reads, are  *)
(* left out.                                                               *)
(***************************************************************************)
LoadDistribution ==
    /\ pc = "distributional_info"
    /\ LET cached == id_strings_labels # <<>> /\ labels_fdist # <<>>
           info == distributional_info(db, args.games)
           dict == IF cached THEN id_strings_labels
                   ELSE info.id_strings_labels_dict
           fd == IF cached THEN labels_fdist ELSE info.labels_fdist
           common == InCommon
       IN IF ~cached /\ info.raised
          THEN /\ Raise("ValueError")
               /\ UNCHANGED <<id_strings_labels, labels_fdist>>
          ELSE /\ id_strings_labels' =
                      IF common THEN Without(dict, test_set) ELSE dict
               /\ labels_fdist' = fd
               /\ pc' = "training_set"
               /\ UNCHANGED error
    /\ UNCHANGED <<db, args, float_index, test_size, test_set, training_set,
                   grid_search_set, num_datasets, dataset, folds_collected,
                   attempts, stopped, calls>>
    /\ UNCHANGED utilities

(***************************************************************************)
(* _generate_dataset for the training set and then for the grid-search     *)
(* set: one step per turn of its loop, one for its end.                    *)
(***************************************************************************)
InDataset == pc \in {"training_set", "grid_search_set"}

GridSearch == pc = "grid_search_set"

Folds == IF GridSearch THEN args.grid_search_folds ELSE args.folds

FoldSize == IF GridSearch THEN args.grid_search_fold_size ELSE args.fold_size

NextPc == IF GridSearch THEN "num_datasets" ELSE "grid_search_set"

\* if self.folds: / if self.grid_search_folds: with a count of 0
SkipDataset ==
    /\ InDataset
    /\ Folds = 0
    /\ pc' = NextPc
    /\ UNCHANGED <<db, args, float_index, error, test_size, id_strings_labels,
                   labels_fdist, test_set, training_set, grid_search_set,
                   num_datasets, dataset, folds_collected, attempts, stopped,
                   calls>>
    /\ UNCHANGED utilities

\* a variant of LoopRuns: an empty fold does not end the loop
LoopRunsOn == attempts < Folds

\* the loop of _generate_dataset goes on
LoopRuns == attempts < Folds /\ ~stopped

\* one turn of the loop, lines 1329-1337, with _generate_training_fold
GenerateFold ==
    /\ InDataset
    /\ Folds # 0
    /\ LoopRuns
    /\ LET r == generate_training_fold(id_strings_labels, labels_fdist,
                    FoldSize, folds_collected, Folds, args.sampling,
                    float_index)
       IN /\ calls' = Append(calls, Call("fold", GridSearch, FoldSize,
                         folds_collected, Folds, id_strings_labels,
                         labels_fdist, r))
          /\ IF r.outcome # "returned"
             THEN /\ Raise(r.outcome)
                  /\ UNCHANGED <<id_strings_labels, dataset, folds_collected,
                                 attempts, stopped>>
             ELSE /\ id_strings_labels' = Without(id_strings_labels, r.ids)
                  /\ UNCHANGED <<pc, error>>
                  /\ IF Len(r.ids) # 0
                     THEN /\ dataset' = Append(dataset, r.ids)
                          /\ folds_collected' = folds_collected + 1
                          /\ attempts' = attempts + 1
                          /\ UNCHANGED stopped
                     ELSE /\ stopped' = TRUE
                          /\ UNCHANGED <<dataset, folds_collected, attempts>>
    /\ UNCHANGED <<db, args, float_index, test_size, labels_fdist, test_set,
                   training_set, grid_search_set, num_datasets>>
    /\ UNCHANGED utilities

\* the end of _generate_dataset, lines 1339-1347, and the assignment
ReturnDataset ==
    /\ InDataset
    /\ Folds # 0
    /\ ~LoopRuns
    /\ IF EnoughFolds(folds_collected, Folds)
       THEN /\ IF GridSearch
               THEN grid_search_set' = Some(dataset) /\ UNCHANGED training_set
               ELSE training_set' = Some(dataset) /\ UNCHANGED grid_search_set
            /\ pc' = NextPc
            /\ dataset' = <<>>
            /\ folds_collected' = 0
            /\ attempts' = 0
            /\ stopped' = FALSE
            /\ UNCHANGED error
       ELSE /\ Raise("ValueError")
            /\ UNCHANGED <<training_set, grid_search_set, dataset,
                           folds_collected, attempts, stopped>>
    /\ UNCHANGED <<db, args, float_index, test_size, id_strings_labels,
                   labels_fdist, test_set, num_datasets, calls>>
    /\ UNCHANGED utilities

\* line 1400: self.num_datasets = len(self.training_set); len(None) raises
SetNumDatasets ==
    /\ pc = "num_datasets"
    /\ IF training_set.none
       THEN Raise("TypeError") /\ UNCHANGED num_datasets
       ELSE /\ num_datasets' = Len(training_set.folds)
            /\ pc' = "done"
            /\ UNCHANGED error
    /\ UNCHANGED <<db, args, float_index, test_size, id_strings_labels,
                   labels_fdist, test_set, training_set, grid_search_set,
                   dataset, folds_collected, attempts, stopped, calls>>
    /\ UNCHANGED utilities

Next ==
    \/ Validate
    \/ MakeTestSet
    \/ LoadDistribution
    \/ SkipDataset
    \/ GenerateFold
    \/ ReturnDataset
    \/ SetNumDatasets

Spec == Init /\ [][Next]_vars

(***************************************************************************)
(* get_bin_ranges and get_bin of src/util/datasets.pyx.  A number is kept  *)
(* as <<t, p>>: t the tenth it is nearest to, p its place among the        *)
(* numbers nearest to that tenth.  The single-precision value of t/10 is   *)
(* <<t, 0>>, the single-precision values next to it are <<t, 2>> and       *)
(* <<t, -2>>, and the double t/10 (what a Python literal gives) lies at    *)
(* <<t, 1>>, <<t, 0>> or <<t, -1>>.  The arguments declared float and the  *)
(* cdef float locals are single precision; the tuples returned and the     *)
(* bounds of bin ranges written by hand are doubles.  The sums rounded to  *)
(* single precision fall on <<t, 0>> except for the arguments listed in    *)
(* BinStartOff, BinEndOff and LastBinEndOff; the quotient rounded to one   *)
(* decimal is the exact one rounded half to even except for those of       *)
(* BinSizeInSingle (the tables cover min up to 0.2, max - min up to 1.4    *)
(* and up to 6 bins, and the two calls ExampleCall and ManyBinsCall).      *)
(***************************************************************************)
BinSizeInSingle ==
    {<<0, 1, 2, 1>>, <<0, 2, 4, 1>>, <<0, 3, 6, 1>>, <<0, 7, 2, 3>>,
     <<0, 9, 6, 1>>, <<0, 14, 4, 3>>, <<1, 1, 2, 1>>, <<1, 2, 4, 1>>,
     <<1, 3, 6, 1>>, <<1, 6, 4, 1>>, <<1, 7, 2, 3>>, <<1, 9, 6, 1>>,
     <<1, 14, 4, 3>>, <<2, 1, 2, 1>>, <<2, 2, 4, 1>>, <<2, 3, 6, 1>>,
     <<2, 7, 2, 3>>, <<2, 9, 2, 5>>, <<2, 11, 2, 5>>, <<2, 14, 4, 3>>}

BinStartOff ==
    {<<1, 0, 0, 2>>}

BinEndOff ==
    {<<0, 3, 1, 2>>, <<0, 4, 2, 2>>, <<0, 7, 1, -2>>, <<1, 0, 1, 2>>,
     <<1, 0, 2, 2>>, <<1, 0, 3, 2>>, <<1, 0, 4, 2>>, <<1, 0, 5, 2>>,
     <<1, 3, 3, 2>>, <<2, 3, 2, 2>>, <<2, 6, 1, 2>>}

LastBinEndOff ==
    {<<0, 7, 1, -2>>, <<0, 13, 1, -2>>, <<1, 3, 3, 2>>, <<2, 2, 6, 2>>,
     <<2, 6, 2, 2>>, <<2, 8, 1, 2>>, <<2, 12, 1, 2>>}

DoubleAbove ==
    {-3, -2, -1, 7, 9, 13, 14, 18, 19, 21, 23, 26, 28, 31, 33, 36, 38, 41, 42, 46, 47, 51, 52, 56, 57, 61, 62, 66, 67, 71, 72, 76, 77, 82, 84, 87, 89, 92, 94, 97, 99, 102, 104, 107, 109, 112}

\* the double of t tenths
Double(t) ==
    <<t, IF t % 5 = 0 THEN 0 ELSE IF t \in DoubleAbove THEN 1 ELSE -1>>

\* the conversion of a Python float to a C float
Float(x) == IF x[2] \in {-1, 1} THEN <<x[1], 0>> ELSE x

\* x < y
Below(x, y) == x[1] < y[1] \/ (x[1] = y[1] /\ x[2] < y[2])

\* the entry of a table for the given arguments, 'otherwise' without one
Entry(table, key, otherwise) ==
    IF \E e \in table : <<e[1], e[2], e[3]>> = key
    THEN (CHOOSE e \in table : <<e[1], e[2], e[3]>> = key)[4]
    ELSE otherwise

RoundHalfEven(a, n) ==
    LET q == a \div n
    IN IF 2 * (a % n) > n THEN q + 1
       ELSE IF 2 * (a % n) < n THEN q
       ELSE q + (q % 2)

\* round((_max - _min)/<float>nbins, 1), in tenths
bin_size(min, max, nbins) ==
    Entry(BinSizeInSingle, <<min, max - min, nbins>>,
          RoundHalfEven(max - min, nbins))

\* _min - 0.1
BinStart(min) == <<min - 1, Entry(BinStartOff, <<min, 0, 0>>, 0)>>

\* _bin_start + bin_size, for the bin b before the last
BinEnd(min, size, b) ==
    <<min - 1 + b * size, Entry(BinEndOff, <<min, size, b>>, 0)>>

\* a variant of LastBinEnd: the last bin is as wide as the others
LastBinEndAsOthers(min, size, nbins) ==
    <<min - 1 + nbins * size, Entry(BinEndOff, <<min, size, nbins>>, 0)>>

\* _bin_start + bin_size + 1.0, for the last bin
LastBinEnd(min, size, nbins) ==
    <<min - 1 + nbins * size + 10,
      Entry(LastBinEndOff, <<min, size, nbins>>, 0)>>

\* the list the loop over range(1, nbins + 1) builds (empty for nbins < 1)
BinRanges(min, size, nbins) ==
    [b \in 1..nbins |->
        <<IF b = 1 THEN BinStart(min) ELSE BinEnd(min, size, b - 1),
          IF b = nbins THEN LastBinEnd(min, size, nbins)
          ELSE BinEnd(min, size, b)>>]

\* get_bin_ranges; the division by <float>nbins = 0 raises
\* ZeroDivisionError, or gives inf or nan in a build with cdivision, where
\* round(inf, 1) is inf and the loop that follows does not run
get_bin_ranges(min, max, nbins, cdivision) ==
    IF nbins = 0
    THEN [raised |-> ~cdivision, ranges |-> <<>>]
    ELSE IF nbins < 0
    THEN [raised |-> FALSE, ranges |-> <<>>]
    ELSE [raised |-> FALSE,
          ranges |-> BinRanges(min, bin_size(min, max, nbins), nbins)]

\* the ranges val falls in: val > bin_range[0] and val <= bin_range[1]
Matching(bin_ranges, val) ==
    {i \in DOMAIN bin_ranges :
        /\ Below(bin_ranges[i][1], val)
        /\ ~Below(bin_ranges[i][2], val)}

\* get_bin(bin_ranges, float val)
get_bin(bin_ranges, val) ==
    LET found == Matching(bin_ranges, Float(val))
    IN IF found = {} THEN -1
       ELSE CHOOSE i \in found : \A j \in found : i <= j

(***************************************************************************)
(* The direct calls: the arguments of get_bin_ranges, or bin ranges        *)
(* written by hand, are there from the start; every value around the       *)
(* ranges is then binned.                                                  *)
(***************************************************************************)
MaxMin == 1

MaxSpan == 12

MaxBins == 5

MaxBound == 2

\* the example of the documentation, and many bins for a short span
ExampleCall == <<0, 100, 5>>

ManyBinsCall == <<0, 10, 21>>

BinCalls ==
    {<<min, min + span, nbins>> :
        min \in 0..MaxMin, span \in 0..MaxSpan, nbins \in (-1)..MaxBins}
    \cup {ExampleCall, ManyBinsCall}

\* one or two ranges with bounds written as one-decimal literals
GivenRanges ==
    LET bounds == {Double(t) : t \in 0..MaxBound}
    IN UNION {[1..n -> bounds \X bounds] : n \in 1..2}

\* the values binned: the one-decimal literals from under the lowest bound
\* to over the highest one
ValuesAround(bin_ranges) ==
    LET ts == {bin_ranges[i][k][1] : i \in DOMAIN bin_ranges, k \in 1..2}
    IN {Double(t) : t \in {u - 2 : u \in ts} \cup ts \cup {u + 1 : u \in ts}
                           \cup {u \in 0..(MaxMin + MaxSpan) :
                                    \E a, b \in ts : a <= u /\ u <= b}}

(***************************************************************************)
(* The direct calls of distributional_info, lines 51-192 of                *)
(* experiments.pyx: a collection whose documents carry their partition,    *)
(* and the arguments of the call.  No bin_ranges are passed, so that the   *)
(* branch of lines 157-162 is not taken.  A raw label value of 0 stands    *)
(* for None, and a power_transform of 0 for None (the documented values    *)
(* are None and the positive numbers, lines 73-75).                        *)
(***************************************************************************)
MaxStored == 2

\* the keys LABELS holds
LabelNames == {"total_game_hours"}

Stored(i, l, g, p) ==
    [id_string |-> i, label |-> l, game |-> g, partition |-> p]

StoredCorpora ==
    UNION {{[i \in 1..n |-> Stored(i, f[i][1], f[i][2], f[i][3])] :
               f \in [1..n -> (Labels \cup {0}) \X Games
                                  \X {"train", "test"}]} :
           n \in 0..MaxStored}

QueryCalls ==
    [label : LabelNames \cup {"hours"},
     games : {{1}, {1, 2}, {1, 3}},
     partition : {"train", "test", "all", "dev"},
     lognormal : BOOLEAN,
     power_transform : {0, 2},
     limit : (-1)..1,
     batch_size : {0, 50}]

\* a variant of ValidationError: the limit is not looked at
ValidationErrorAnyLimit(c) ==
    IF c.partition \notin {"train", "test", "all"} THEN "partition"
    ELSE IF c.label \notin LabelNames THEN "label"
    ELSE IF \E game \in c.games : game \notin Games THEN "games"
    ELSE IF c.lognormal /\ c.power_transform # 0 THEN "transform"
    ELSE IF c.batch_size < 1 THEN "batch_size"
    ELSE ""

\* lines 121-140: the parameter the first failing check names, "" when
\* every check passes (limit is an int in every call made here)
ValidationError(c) ==
    IF c.partition \notin {"train", "test", "all"} THEN "partition"
    ELSE IF c.label \notin LabelNames THEN "label"
    ELSE IF c.limit # 0 /\ c.limit < 0 THEN "limit"
    ELSE IF \E game \in c.games : game \notin Games THEN "games"
    ELSE IF c.lognormal /\ c.power_transform # 0 THEN "transform"
    ELSE IF c.batch_size < 1 THEN "batch_size"
    ELSE ""

\* lines 142-153: the documents of the games, of the partition unless it
\* is 'all', and no more than limit of them unless it is 0
Cursor(docs, c) ==
    LET found == SelectSeq(docs, LAMBDA d :
                     /\ d.game \in c.games
                     /\ c.partition # "all" => d.partition = c.partition)
    IN IF c.limit = 0 THEN found ELSE Prefix(found, c.limit)

\* the label value after the transformation asked for, None (0) staying
\* None: the natural log, the power, or the raw value
compute_label_value(v, lognormal, power_transform) ==
    IF v = 0 THEN <<"None">>
    ELSE IF lognormal THEN <<"log", v>>
    ELSE IF power_transform # 0 THEN <<"power", v, power_transform>>
    ELSE <<"raw", v>>

\* a variant of Samples: documents without a label value are kept
SamplesWithNone(docs, c) ==
    [k \in DOMAIN Cursor(docs, c) |->
        [id_string |-> Cursor(docs, c)[k].id_string,
         label |-> compute_label_value(Cursor(docs, c)[k].label,
                                       c.lognormal, c.power_transform)]]

\* lines 164-183: documents whose label value is None are skipped
Samples(docs, c) ==
    LET valued == SelectSeq(Cursor(docs, c), LAMBDA d : d.label # 0)
    IN [k \in DOMAIN valued |->
          [id_string |-> valued[k].id_string,
           label |-> compute_label_value(valued[k].label, c.lognormal,
                                         c.power_transform)]]

\* the call as a whole: an error of the validation, the error of lines
\* 185-186 when no sample is left, or the dictionary and the FreqDist
DistributionalInfoCall(docs, c) ==
    IF ValidationError(c) # ""
    THEN [outcome |-> "ValueError", message |-> ValidationError(c),
          call |-> c]
    ELSE IF Samples(docs, c) = <<>>
    THEN [outcome |-> "ValueError", message |-> "no documents",
          call |-> c]
    ELSE [outcome |-> "returned", call |-> c,
          id_strings_labels_dict |-> IdStringsLabelsDict(Samples(docs, c)),
          labels_fdist |-> FreqDist(Samples(docs, c))]

Direct ==
    /\ args = ValidArgs
    /\ float_index = "truncated"
    /\ Start
    /\ value = NoValue
    /\ bin = 0
    /\ query = NoQuery
    /\ generator = NoGenerator

UtilitiesInit ==
    /\ Direct
    /\ \/ \E c \in BinCalls, cdivision \in BOOLEAN :
             /\ cdivision => c[3] = 0
             /\ db = <<>>
             /\ bins = [source |-> "call", min |-> c[1], max |-> c[2],
                        nbins |-> c[3], cdivision |-> cdivision,
                        raised |-> FALSE, ranges |-> <<>>]
       \/ \E r \in GivenRanges :
             /\ db = <<>>
             /\ bins = [NoBins EXCEPT !.source = "given", !.ranges = r]
       \/ /\ db \in StoredCorpora
          /\ bins = NoBins

construction ==
    <<db, args, float_index, pc, error, test_size, id_strings_labels,
      labels_fdist, test_set, training_set, grid_search_set, num_datasets,
      dataset, folds_collected, attempts, stopped, calls>>

GetBinRanges ==
    /\ bins.source = "call"
    /\ LET r == get_bin_ranges(bins.min, bins.max, bins.nbins,
                               bins.cdivision)
       IN bins' = [bins EXCEPT !.source = "generated",
                               !.raised = r.raised, !.ranges = r.ranges]
    /\ UNCHANGED <<construction, value, bin, query, generator>>

GetBin ==
    /\ bins.source \in {"given", "generated"}
    /\ ~bins.raised
    /\ \E val \in ValuesAround(bins.ranges)
                    \cup {Double(bins.min), Double(bins.max)} :
          /\ value' = val
          /\ bin' = get_bin(bins.ranges, val)
    /\ UNCHANGED <<construction, bins, query, generator>>

DistributionalInfo ==
    /\ bins.source = "none"
    /\ query = NoQuery
    /\ \E c \in QueryCalls : query' = DistributionalInfoCall(db, c)
    /\ UNCHANGED <<construction, bins, value, bin, generator>>

UtilitiesNext ==
    \/ GetBinRanges
    \/ GetBin
    \/ DistributionalInfo

Utilities == UtilitiesInit /\ [][UtilitiesNext]_vars

(***************************************************************************)
(* evenly_distribute_samples, lines 224-304 of experiments.pyx, a          *)
(* generator: nothing of its body runs before the first next(), and each   *)
(* next() runs it up to the following yield or to its end.  The order in   *)
(* which a dict hands out its items is the build's, so that it is any      *)
(* order of the identifiers.                                               *)
(***************************************************************************)
MaxYielded == 4

YieldedCorpora ==
    UNION {{[i \in 1..n |-> Stored(i, l[i], 1, "test")] :
               l \in [1..n -> Labels \cup {0}]} :
           n \in 0..MaxYielded}

\* limit and batch_size are not passed on: they keep their defaults
GeneratorCalls ==
    {c \in QueryCalls : /\ c.label \in LabelNames
                        /\ c.games = {1}
                        /\ c.partition \in {"test", "dev"}
                        /\ c.limit = 0
                        /\ c.batch_size = 50}

\* lines 269-277: the checks of the generator itself
GeneratorError(c) ==
    IF c.partition # "test" /\ c.partition \notin {"train", "all"}
    THEN "partition"
    ELSE IF c.lognormal /\ c.power_transform # 0 THEN "transform"
    ELSE ""

\* the orders a dict can hand out its keys in
ItemOrders(dict) ==
    {items \in [1..Cardinality(DOMAIN dict) -> DOMAIN dict] :
        \A j, k \in DOMAIN items : items[j] = items[k] => j = k}

\* lines 291-297: for each label of the FreqDist, the list of the
\* identifiers of that label, and the counter of line 297
Begun(info, items) ==
    [state |-> "running",
     call |-> info.call,
     id_strings_labels_dict |-> info.id_strings_labels_dict,
     labels |-> [k \in DOMAIN info.labels_fdist |->
                    info.labels_fdist[k].label],
     labels_id_strings_lists |->
        [k \in DOMAIN info.labels_fdist |->
            SelectSeq(items, LAMBDA id :
                info.id_strings_labels_dict[id]
                    = info.labels_fdist[k].label)],
     i |-> 0,
     at |-> 1,
     yielded |-> <<>>]

\* a variant of Popped: the identifier yielded stays in its list
Kept(list) == list

\* list.pop() of line 303: the list without its last item
Popped(list) == SubSeq(list, 1, Len(list) - 1)

\* line 303: the last identifier of the list of the label at position p
\* is popped off and yielded, and line 304 counts it
Yielded(g, p) ==
    [g EXCEPT !.labels_id_strings_lists[p] = Popped(@),
              !.yielded = Append(@, g.labels_id_strings_lists[p]
                                      [Len(g.labels_id_strings_lists[p])]),
              !.i = @ + 1,
              !.at = p + 1]

\* lines 298-304 from where the generator stands to its next yield: the
\* rest of the for loop over the labels, then the test of the while loop
\* and a for loop anew; a while loop that goes on with every list empty
\* never yields again
Resumed(g) ==
    LET full(from) == {p \in from..Len(g.labels) :
                          g.labels_id_strings_lists[p] # <<>>}
        first(ps) == CHOOSE p \in ps : \A q \in ps : p <= q
    IN IF full(g.at) # {} THEN Yielded(g, first(full(g.at)))
       ELSE IF g.i < Cardinality(DOMAIN g.id_strings_labels_dict)
       THEN IF full(1) # {} THEN Yielded(g, first(full(1)))
            ELSE [g EXCEPT !.state = "looping"]
       ELSE [g EXCEPT !.state = "done"]

GeneratorInit ==
    /\ Direct
    /\ db \in YieldedCorpora
    /\ bins = NoBins

\* the call: a generator object, none of whose code has run
EvenlyDistributeSamples ==
    /\ generator = NoGenerator
    /\ \E c \in GeneratorCalls :
          generator' = [state |-> "created", call |-> c]
    /\ UNCHANGED <<construction, bins, value, bin, query>>

\* next() on the generator: the first one runs the checks of lines
\* 269-277 and the call of lines 281-287, whose errors it raises
NextSample ==
    /\ generator.state \in {"created", "running"}
    /\ \/ /\ generator.state = "created"
          /\ \E info \in {DistributionalInfoCall(db, generator.call)} :
                IF \/ GeneratorError(generator.call) # ""
                   \/ info.outcome = "ValueError"
                THEN generator' = [state |-> "raised",
                                   call |-> generator.call]
                ELSE \E items \in ItemOrders(info.id_strings_labels_dict) :
                        \E begun \in {Begun(info, items)} :
                           generator' = Resumed(begun)
       \/ /\ generator.state = "running"
          /\ generator' = Resumed(generator)
    /\ UNCHANGED <<construction, bins, value, bin, query>>

GeneratorNext ==
    \/ EvenlyDistributeSamples
    \/ NextSample

\* the caller iterates over the generator until it is exhausted
Generator ==
    GeneratorInit /\ [][GeneratorNext]_vars /\ WF_vars(NextSample)

(***************************************************************************)
(* What the claims speak of.                                               *)
(***************************************************************************)
UniqueIds ==
    \A i, j \in DOMAIN db : db[i].id_string = db[j].id_string => i = j

NoDuplicates(s) == \A i, j \in DOMAIN s : s[i] = s[j] => i = j

\* the partitions a finished construction exposes
Partitions == <<test_set>> \o training_set.folds \o grid_search_set.folds

\* the identifiers of the pool with the given label
PoolIds(dict, l) == {i \in DOMAIN dict : dict[i] = l}

FoldCalls == {k \in DOMAIN calls : calls[k].op = "fold"}

TestCalls == {k \in DOMAIN calls : calls[k].op = "test"}

\* the pool exists from here on
PoolBuilt ==
    pc \in {"training_set", "grid_search_set", "num_datasets", "done"}

\* C1: after a successful construction over a corpus with unique
\* identifiers, the test set and all the folds of the training and the
\* grid-search dataset are pairwise disjoint and none holds an identifier
\* twice.
C1_PartitionsDisjoint ==
    (pc = "done" /\ UniqueIds) =>
        /\ \A i \in DOMAIN Partitions : NoDuplicates(Partitions[i])
        /\ \A i, j \in DOMAIN Partitions :
              i # j => Range(Partitions[i]) \cap Range(Partitions[j]) = {}

C1_Witness ==
    /\ pc = "done"
    /\ UniqueIds
    /\ test_set # <<>>
    /\ TestGames \cap args.games # {}
    /\ training_set.folds # <<>>
    /\ grid_search_set.folds # <<>>

\* C2: once built the pool only shrinks; an identifier returned in a fold
\* is never in the pool afterwards, and no two draws of folds return the
\* same identifier.
C2_PoolOnlyShrinks ==
    /\ [](\A k \in FoldCalls :
            /\ Range(calls[k].ids) \cap DOMAIN id_strings_labels = {}
            /\ \A m \in FoldCalls :
                  k # m => Range(calls[k].ids) \cap Range(calls[m].ids) = {})
    /\ [][(PoolBuilt \/ DOMAIN id_strings_labels # {}) =>
            DOMAIN id_strings_labels' \subseteq DOMAIN id_strings_labels]_vars

C2_Witness ==
    /\ TestCalls # {}
    /\ test_set # <<>>
    /\ \E k, m \in FoldCalls :
          k < m /\ calls[k].ids # <<>> /\ calls[m].ids # <<>>

\* C3: when the loop of _generate_dataset has ended for F >= 1 requested
\* folds, the collected folds are returned if their number is at least 75%
\* of F (3 of 4 included), and otherwise the incomplete-dataset ValueError
\* is raised and nothing is returned.
C3_AcceptedAtThreeQuarters ==
    /\ [](/\ ~training_set.none =>
               100 * Len(training_set.folds) >= 75 * args.folds
          /\ ~grid_search_set.none =>
               100 * Len(grid_search_set.folds) >= 75 * args.grid_search_folds)
    /\ [][(InDataset /\ Folds >= 1 /\ (attempts = Folds \/ stopped)) =>
            IF 100 * folds_collected >= 75 * Folds
            THEN /\ pc' = NextPc
                 /\ IF GridSearch
                    THEN grid_search_set' = Some(dataset)
                    ELSE training_set' = Some(dataset)
            ELSE /\ pc' = "raised"
                 /\ error' = "ValueError"
                 /\ UNCHANGED <<training_set, grid_search_set>>]_vars

C3_Witness ==
    /\ args.folds = 4
    /\ ~training_set.none
    /\ Len(training_set.folds) = 3

\* the factor a stratified pass finds for the pool and target of a call
FactorOf(c) ==
    ShrinkFactor(ShuffledLabelIds(SortedLabels(c.fdist), c.dict,
                                  Seed).labels_ids, c.fdist, c.S, One)

\* the shrink 1 - factor, compared with p percent in exact arithmetic
ShrinkOver(f, p) == 100 * (f[2] - f[1]) > p * f[2]

\* C4: in stratified mode the draw of the test set fails whenever the
\* shrink it needs exceeds 50%, and succeeds whenever it needs a shrink of
\* at most 50% (on a build that accepts the shrunk size as a slice bound).
C4_TestSetShrinkCeiling ==
    \A k \in TestCalls :
        (/\ args.sampling = "stratified"
         /\ float_index = "truncated"
         /\ FactorLess(FactorOf(calls[k]), One)) =>
            IF ShrinkOver(FactorOf(calls[k]), 50)
            THEN calls[k].outcome # "returned"
            ELSE calls[k].outcome = "returned"

\* C5: in stratified mode a fold draw that needs a shrink over 10% fails
\* when a fold was already collected for the dataset and returns an empty
\* fold when none was; a draw that needs a shrink of at most 10% returns a
\* fold (on a build that accepts the shrunk size as a slice bound).
C5_FoldShrinkCeiling ==
    \A k \in FoldCalls :
        (/\ args.sampling = "stratified"
         /\ float_index = "truncated"
         /\ FactorLess(FactorOf(calls[k]), One)) =>
            IF ShrinkOver(FactorOf(calls[k]), 10)
            THEN IF calls[k].n_folds_collected >= 1
                 THEN calls[k].outcome # "returned"
                 ELSE calls[k].outcome = "returned" /\ calls[k].ids = <<>>
            ELSE calls[k].outcome = "returned"

\* the first label in ascending order of frequency has no identifier in
\* the pool a call was made on
FirstLabelGone(c) ==
    /\ c.fdist # <<>>
    /\ PoolIds(c.dict, SortedLabels(c.fdist)[1]) = {}

\* C6: in even mode, on a pool without any identifier of the first label
\* in ascending order of frequency, a fold draw raises ValueError when no
\* fold was collected yet for the dataset and returns an empty fold when
\* at least one was; the draw of the test set raises ValueError.
C6_EvenFirstLabelGone ==
    \A k \in DOMAIN calls :
        (args.sampling = "even" /\ FirstLabelGone(calls[k])) =>
            IF calls[k].op = "fold" /\ calls[k].n_folds_collected >= 1
            THEN calls[k].outcome = "returned" /\ calls[k].ids = <<>>
            ELSE calls[k].outcome = "ValueError"

C6_Witness ==
    /\ args.sampling = "even"
    /\ \E k \in FoldCalls :
          /\ FirstLabelGone(calls[k])
          /\ calls[k].n_folds_collected >= 1
          /\ calls[k].outcome = "returned"
    /\ \E k \in FoldCalls :
          /\ FirstLabelGone(calls[k])
          /\ calls[k].n_folds_collected = 0
          /\ calls[k].outcome = "ValueError"

\* the fold draws made for the training or for the grid-search dataset
DrawsFor(grid_search) ==
    SelectSeq(calls, LAMBDA c : c.op = "fold" /\ c.grid_search = grid_search)

\* the non-empty folds those draws returned, in the order of the draws
FoldsDrawn(grid_search) ==
    LET kept == SelectSeq(DrawsFor(grid_search),
                          LAMBDA c : c.outcome = "returned" /\ c.ids # <<>>)
    IN [k \in DOMAIN kept |-> kept[k].ids]

EmptyFold(c) == c.outcome = "returned" /\ c.ids = <<>>

\* C7: after a draw that returned an empty fold no further fold is drawn
\* for that dataset; the dataset under construction and the dataset
\* returned hold the non-empty folds in the order drawn, at most F of them.
C7_StopsAtFirstEmptyFold ==
    /\ \A g \in BOOLEAN :
          \A k \in 1..(Len(DrawsFor(g)) - 1) : ~EmptyFold(DrawsFor(g)[k])
    /\ DrawsFor(FALSE) # <<>> => Len(DrawsFor(FALSE)) <= args.folds
    /\ DrawsFor(TRUE) # <<>> => Len(DrawsFor(TRUE)) <= args.grid_search_folds
    /\ (InDataset /\ pc # "raised") => dataset = FoldsDrawn(GridSearch)
    /\ ~training_set.none =>
          /\ training_set.folds = FoldsDrawn(FALSE)
          /\ Len(training_set.folds) <= args.folds
          /\ \A i \in DOMAIN training_set.folds :
                training_set.folds[i] # <<>>
    /\ ~grid_search_set.none =>
          /\ grid_search_set.folds = FoldsDrawn(TRUE)
          /\ Len(grid_search_set.folds) <= args.grid_search_folds
          /\ \A i \in DOMAIN grid_search_set.folds :
                grid_search_set.folds[i] # <<>>

C7_Witness ==
    /\ ~training_set.none
    /\ Len(training_set.folds) >= 1
    /\ Len(training_set.folds) < args.folds
    /\ EmptyFold(DrawsFor(FALSE)[Len(DrawsFor(FALSE))])

\* the identifiers of the queried documents of the training games
TrainingIds ==
    {db[i].id_string : i \in {j \in DOMAIN db : db[j].game \in args.games}}

\* the games of the test set and of the training set overlap
GamesInCommon == \E game \in TestGames : game \in args.games

\* C8: a returned fold holds at most the target size S asked of the draw
\* and a returned test set at most test_size identifiers, in both sampling
\* modes, shrunk or not; the identifiers a fold draw returns are exactly
\* those it deletes from the pool, and the pool the folds are drawn from
\* starts without the identifiers of a test set of overlapping games.
C8_TruncatedThenRemoved ==
    /\ [](\A k \in DOMAIN calls :
            calls[k].outcome = "returned" => Len(calls[k].ids) <= calls[k].S)
    /\ [](Len(test_set) <= args.test_size \/ TestCalls = {})
    /\ [][(Len(calls') > Len(calls)
            /\ calls'[Len(calls')].op = "fold"
            /\ calls'[Len(calls')].outcome = "returned") =>
              /\ DOMAIN id_strings_labels' =
                     DOMAIN id_strings_labels \ Range(calls'[Len(calls')].ids)
              /\ Range(calls'[Len(calls')].ids)
                     \subseteq DOMAIN id_strings_labels]_vars
    /\ [][(pc = "distributional_info" /\ pc' = "training_set") =>
              DOMAIN id_strings_labels' =
                  IF TestCalls # {} /\ GamesInCommon
                  THEN TrainingIds \ Range(test_set)
                  ELSE TrainingIds]_vars

C8_Witness ==
    /\ args.sampling = "even"
    /\ \E k \in TestCalls :
          /\ calls[k].outcome = "returned"
          /\ Len(calls[k].ids) = calls[k].S
          /\ Len(calls[k].ids) < Len(calls[k].fdist) * EvenQuota(calls[k].S, calls[k].fdist)
    /\ \E k \in FoldCalls :
          /\ calls[k].outcome = "returned"
          /\ Len(calls[k].ids) = calls[k].S
          /\ \A l \in Labels : PoolIds(calls[k].dict, l) # {}
          /\ Len(calls[k].ids) < Len(calls[k].fdist) * EvenQuota(calls[k].S, calls[k].fdist)

\* the queried documents of the training games with the given label
Queried(l) ==
    {i \in DOMAIN db : db[i].game \in args.games /\ db[i].label = l}

\* C9 as stated: in every state after the removal of the test set and
\* after each fold draw, labels_fdist[l] is the number of identifiers of
\* label l in the pool.
C9_FdistTracksPool ==
    (PoolBuilt /\ UniqueIds) =>
        \A l \in Labels :
            FdistCount(labels_fdist, l)
                = Cardinality(PoolIds(id_strings_labels, l))

\* C9: labels_fdist is built with the mapping by one query and is not
\* rebuilt when identifiers are deleted from the mapping: after the removal
\* of the test set and after each fold draw labels_fdist[l] is still the
\* number of queried documents of the training games with label l, which
\* is at least the number of identifiers of label l in the pool.
C9_FdistKeepsQueriedCounts ==
    /\ [](PoolBuilt =>
            \A l \in Labels :
                /\ FdistCount(labels_fdist, l) = Cardinality(Queried(l))
                /\ FdistCount(labels_fdist, l)
                       >= Cardinality(PoolIds(id_strings_labels, l)))
    /\ [][labels_fdist # <<>> => labels_fdist' = labels_fdist]_vars

C9_Witness ==
    /\ pc = "done"
    /\ TestCalls # {}
    /\ test_set # <<>>
    /\ GamesInCommon
    /\ training_set.folds # <<>>
    /\ \E l \in Labels :
          FdistCount(labels_fdist, l)
              > Cardinality(PoolIds(id_strings_labels, l)) + Len(test_set)

\* C10: the test set is drawn at most once, only for a non-zero test_size
\* and before every fold draw; every fold draw for the training dataset
\* comes before every fold draw for the grid-search dataset, whose pool
\* holds none of the identifiers the training folds took.
C10_DrawOrder ==
    /\ TestCalls \subseteq {1}
    /\ TestCalls # {} => args.test_size # 0
    /\ \A k, m \in FoldCalls :
          (~calls[k].grid_search /\ calls[m].grid_search) =>
              /\ k < m
              /\ Range(calls[k].ids) \cap DOMAIN calls[m].dict = {}
              /\ DOMAIN calls[m].dict \subseteq DOMAIN calls[k].dict

C10_Witness ==
    /\ pc = "done"
    /\ TestCalls = {1}
    /\ \E k, m \in FoldCalls :
          /\ ~calls[k].grid_search /\ calls[k].ids # <<>>
          /\ calls[m].grid_search /\ calls[m].ids # <<>>

\* C11: when a test set was built and a game of the test set is a game of
\* the training set, no pool a fold is drawn from holds an identifier of
\* the test set: they are deleted before the first fold draw.
C11_TestIdsLeavePool ==
    (TestCalls # {} /\ GamesInCommon) =>
        \A k \in FoldCalls : Range(test_set) \cap DOMAIN calls[k].dict = {}

C11_Witness ==
    /\ ~GamesEqual
    /\ GamesInCommon
    /\ Range(test_set) \cap TrainingIds # {}
    /\ \E k \in FoldCalls : calls[k].ids # <<>>

\* the arguments C12 lists
Unacceptable ==
    \/ args.games = {}
    \/ \E g \in args.games \cup args.test_games : g \notin {1, 2}
    \/ \E n \in {args.folds, args.fold_size, args.grid_search_folds,
                  args.grid_search_fold_size, args.test_size} : n < 0
    \/ args.batch_size < 1
    \/ args.sampling \notin {"even", "stratified"}

\* nothing was queried and nothing was built
Untouched ==
    /\ calls = <<>>
    /\ id_strings_labels = <<>>
    /\ labels_fdist = <<>>
    /\ test_set = <<>>
    /\ training_set.none
    /\ grid_search_set.none

\* C12: with an empty set of games, an unrecognized game, a negative
\* folds, fold_size, grid_search_folds, grid_search_fold_size or test_size,
\* a batch_size under 1 or a sampling other than 'even' and 'stratified',
\* the first step of the construction raises ValueError, and no query is
\* made and no pool exists before or after it.
C12_InvalidArgumentsRejected ==
    /\ [](Unacceptable =>
            /\ pc \in {"__init__", "raised"}
            /\ pc = "raised" => error = "ValueError"
            /\ Untouched)
    /\ [][(Unacceptable /\ pc = "__init__") =>
            (pc' = "raised" /\ error' = "ValueError")]_vars

C12_Witness ==
    /\ pc = "raised"
    /\ error = "ValueError"
    /\ args.grid_search_fold_size < 0
    /\ Untouched

\* C13: with test games that differ from the games and a test_size of 0
\* the construction raises ValueError in its validation.
C13_TestSizeMandatory ==
    (~GamesEqual /\ args.test_size = 0) =>
        /\ pc \in {"__init__", "raised"}
        /\ pc = "raised" => error = "ValueError"

\* the combinations of bin ranges C14 lists
BinsMismatch ==
    \/ args.bin_ranges > 0 /\ args.test_bin_ranges = 0
    \/ /\ args.bin_ranges > 0 /\ args.test_bin_ranges > 0
       /\ args.bin_ranges # args.test_bin_ranges
    \/ args.bin_ranges = 0 /\ args.test_bin_ranges > 0

\* C14: with test games that differ from the games, bin_ranges without
\* test_bin_ranges, both with different numbers of bins, and
\* test_bin_ranges without bin_ranges are rejected with ValueError by the
\* validation; with the same games the validation rejects none of them.
C14_BinRangesAgree ==
    /\ [][(pc = "__init__" /\ ~GamesEqual /\ BinsMismatch) =>
            (pc' = "raised" /\ error' = "ValueError")]_vars
    /\ [][(pc = "__init__" /\ GamesEqual /\ BinsMismatch /\ ~Unacceptable)
            => pc' = "make_test_set"]_vars
    /\ []((BinsMismatch /\ ~GamesEqual) =>
            (pc \in {"__init__", "raised"} /\ Untouched))

C14_Witness ==
    /\ pc = "raised"
    /\ ~GamesEqual
    /\ args.bin_ranges = 2
    /\ args.test_bin_ranges = 1

\* a sampling pass raised, or a dataset ended with under 75% of its folds
SomethingFailed ==
    \/ \E k \in DOMAIN calls : calls[k].outcome # "returned"
    \/ /\ DrawsFor(TRUE) # <<>>
       /\ 4 * Len(FoldsDrawn(TRUE)) < 3 * args.grid_search_folds
       /\ pc # "grid_search_set"
    \/ /\ DrawsFor(FALSE) # <<>>
       /\ 4 * Len(FoldsDrawn(FALSE)) < 3 * args.folds
       /\ pc # "training_set"

\* C15: when the draw of the test set, the training dataset or the
\* grid-search dataset fails (the grid-search dataset under 75% after an
\* accepted training dataset included) the construction has raised and
\* never ends with an object; a construction that ends exposes the
\* training folds, the grid-search folds asked for and the test set asked
\* for, each as drawn.
C15_NoPartialSuccess ==
    /\ [](SomethingFailed => (pc = "raised" /\ error # "none"))
    /\ [][pc = "raised" => pc' = "raised"]_vars
    /\ [](pc = "done" =>
            /\ error = "none"
            /\ ~training_set.none
            /\ training_set.folds = FoldsDrawn(FALSE)
            /\ 4 * Len(training_set.folds) >= 3 * args.folds
            /\ args.grid_search_folds # 0 =>
                  /\ ~grid_search_set.none
                  /\ grid_search_set.folds = FoldsDrawn(TRUE)
                  /\ 4 * Len(grid_search_set.folds)
                         >= 3 * args.grid_search_folds
            /\ args.test_size # 0 =>
                  /\ TestCalls = {1}
                  /\ test_set = calls[1].ids)

C15_Witness ==
    /\ pc = "raised"
    /\ error = "ValueError"
    /\ ~training_set.none
    /\ training_set.folds # <<>>
    /\ test_set # <<>>
    /\ grid_search_set.none
    /\ \E k \in FoldCalls : calls[k].grid_search /\ EmptyFold(calls[k])

\* get_bin_ranges has returned the ranges at hand
Generated == bins.source = "generated" /\ ~bins.raised

\* a value was binned on the ranges at hand
Binned == bins.source \in {"given", "generated"} /\ value # NoValue

\* C16: for min <= max and n >= 1, get_bin_ranges(min, max, n) returns n
\* ranges, each starting where the one before ends and each with its low
\* bound under its high bound, and get_bin gives every value from min to
\* max an index in 1..n.
C16_RangesCoverTheSpan ==
    (Generated /\ bins.nbins >= 1) =>
        /\ Len(bins.ranges) = bins.nbins
        /\ \A b \in 2..Len(bins.ranges) :
              bins.ranges[b][1] = bins.ranges[b - 1][2]
        /\ \A b \in DOMAIN bins.ranges :
              Below(bins.ranges[b][1], bins.ranges[b][2])
        /\ (Binned /\ bins.min <= value[1] /\ value[1] <= bins.max) =>
              bin \in 1..bins.nbins

\* the single-precision value of t tenths
Single(t) == <<t, 0>>

\* C17 as stated: the five ranges of get_bin_ranges(0.0, 10.0, 5) are each
\* 2.0 wide, the first starts at -0.1, and get_bin gives 10.0 the index 5.
C17_ExampleEachTwoWide ==
    (Generated /\ <<bins.min, bins.max, bins.nbins>> = ExampleCall) =>
        /\ Len(bins.ranges) = 5
        /\ bins.ranges[1][1] = Single(-1)
        /\ \A b \in DOMAIN bins.ranges :
              bins.ranges[b][2][1] - bins.ranges[b][1][1] = 20
        /\ (Binned /\ value = Double(100)) => bin = 5

\* C17: get_bin_ranges(0.0, 10.0, 5) returns the five contiguous ranges
\* (-0.1, 1.9), (1.9, 3.9), (3.9, 5.9), (5.9, 7.9), (7.9, 10.9) in single
\* precision: the first starts at -0.1, the first four are 2.0 wide and
\* the last, which gets a margin of 1.0, is 3.0 wide; get_bin gives 10.0
\* the index 5.
C17_ExampleRanges ==
    (Generated /\ <<bins.min, bins.max, bins.nbins>> = ExampleCall) =>
        /\ bins.ranges = << <<Single(-1), Single(19)>>,
                            <<Single(19), Single(39)>>,
                            <<Single(39), Single(59)>>,
                            <<Single(59), Single(79)>>,
                            <<Single(79), Single(109)>> >>
        /\ (Binned /\ value = Double(100)) => bin = 5

C17_Witness ==
    /\ Generated
    /\ <<bins.min, bins.max, bins.nbins>> = ExampleCall
    /\ value = Double(100)
    /\ bin = 5

\* C18: get_bin_ranges called with n_bins under 1 raises an error.
C18_NeedsABin ==
    (bins.source = "generated" /\ bins.nbins < 1) => bins.raised

\* the ranges the value as passed falls in
Falls(bin_ranges, val) ==
    {i \in DOMAIN bin_ranges :
        /\ Below(bin_ranges[i][1], val)
        /\ ~Below(bin_ranges[i][2], val)}

\* C19: get_bin(bin_ranges, v) is the index, from 1, of the first range
\* with v > low and v <= high, and -1 when there is none; a value equal to
\* the lowest low bound or above the highest high bound gets -1.
C19_FirstRangeTheValueFallsIn ==
    Binned =>
        /\ bin = IF Falls(bins.ranges, value) = {} THEN -1
                 ELSE CHOOSE i \in Falls(bins.ranges, value) :
                          \A j \in Falls(bins.ranges, value) : i <= j
        /\ (\A i \in DOMAIN bins.ranges :
                ~Below(bins.ranges[i][1], value)) => bin = -1
        /\ (\A i \in DOMAIN bins.ranges :
                Below(bins.ranges[i][2], value)) => bin = -1


\* distributional_info has been called directly
Asked == query.outcome # "none"

\* the request is one the validation has to refuse
Refused(c) ==
    \/ \E game \in c.games : game \notin Games
    \/ c.partition \notin {"train", "test", "all"}
    \/ c.limit < 0
    \/ c.batch_size < 1
    \/ c.lognormal /\ c.power_transform # 0

\* C20: distributional_info raises an error of its validation, and returns
\* no mapping, when a game is not recognized, when partition is not one of
\* 'train', 'test' and 'all', when limit is negative, when batch_size is
\* under 1, or when lognormal and power_transform are both given.
C20_InvalidCallsFail ==
    (Asked /\ Refused(query.call)) =>
        /\ query.outcome = "ValueError"
        /\ query.message \in {"partition", "label", "limit", "games",
                              "transform", "batch_size"}
        /\ "id_strings_labels_dict" \notin DOMAIN query
        /\ "labels_fdist" \notin DOMAIN query

\* a negative limit, and nothing else, makes a call fail on a collection
\* that has documents to return
C20_Witness ==
    /\ Asked
    /\ query.call.limit < 0
    /\ ValidationError([query.call EXCEPT !.limit = 0]) = ""
    /\ Samples(db, [query.call EXCEPT !.limit = 0]) # <<>>
    /\ query.outcome = "ValueError"
    /\ query.message = "limit"

\* the documents of the collection the call asks for: those of the games
\* and of the partition, up to the limit
AskedFor(docs, c) ==
    LET match == {k \in DOMAIN docs :
                     /\ docs[k].game \in c.games
                     /\ c.partition = "all" \/ docs[k].partition = c.partition}
    IN {k \in match :
           c.limit = 0 \/ Cardinality({j \in match : j <= k}) <= c.limit}

\* those of them that have a label value
Survivors(docs, c) == {k \in AskedFor(docs, c) : docs[k].label # 0}

\* C21: on a collection with unique identifiers, a call of
\* distributional_info that passes the validation returns a mapping that
\* holds exactly the queried documents whose label value is not None, each
\* with its transformed value, and a frequency table whose count for a
\* label is the number of identifiers mapped to it, the counts adding up to
\* the size of the mapping; it raises the error of the empty result when
\* no queried document has a label value.
C21_SnapshotOfSurvivors ==
    (Asked /\ ~(query.outcome = "ValueError"
                /\ query.message # "no documents")) =>
        IF Survivors(db, query.call) = {}
        THEN query.outcome = "ValueError" /\ query.message = "no documents"
        ELSE /\ query.outcome = "returned"
             /\ DOMAIN query.id_strings_labels_dict
                    = {db[k].id_string : k \in Survivors(db, query.call)}
             /\ \A k \in Survivors(db, query.call) :
                    query.id_strings_labels_dict[db[k].id_string]
                        = compute_label_value(db[k].label,
                              query.call.lognormal,
                              query.call.power_transform)
             /\ \A e \in DOMAIN query.labels_fdist :
                    query.labels_fdist[e].count
                        = Cardinality(
                            {i \in DOMAIN query.id_strings_labels_dict :
                                query.id_strings_labels_dict[i]
                                    = query.labels_fdist[e].label})
             /\ \A i \in DOMAIN query.id_strings_labels_dict :
                    \E e \in DOMAIN query.labels_fdist :
                        query.labels_fdist[e].label
                            = query.id_strings_labels_dict[i]
             /\ \A e, f \in DOMAIN query.labels_fdist :
                    query.labels_fdist[e].label = query.labels_fdist[f].label
                        => e = f
             /\ FdistN(query.labels_fdist)
                    = Cardinality(DOMAIN query.id_strings_labels_dict)

\* a call returned the one document with a label value and left out the
\* one without
C21_Witness ==
    /\ Asked
    /\ query.outcome = "returned"
    /\ Cardinality(AskedFor(db, query.call)) = 2
    /\ Cardinality(Survivors(db, query.call)) = 1
    /\ Cardinality(DOMAIN query.id_strings_labels_dict) = 1

\* the labels of the frequency table a pass went over
CallLabels(c) == {c.fdist[k].label : k \in DOMAIN c.fdist}

\* the identifiers of a label the pool held when the pass began
Available(c, l) == Cardinality({i \in DOMAIN c.dict : c.dict[i] = l})

\* ceil(freq(l) * S), freq(l) being the share of l in the frequency table
Desired(c, l) ==
    CHOOSE q \in 0..c.S :
        /\ q * FdistN(c.fdist) >= FdistCount(c.fdist, l) * c.S
        /\ q > 0 => (q - 1) * FdistN(c.fdist) < FdistCount(c.fdist, l) * c.S

\* the labels with fewer identifiers than desired
Short(c) == {l \in CallLabels(c) : Available(c, l) < Desired(c, l)}

\* the size a pass worked with is S shrunk by the least of the ratios of
\* the short labels, or S itself when no label is short
LeastRatio(c) ==
    IF Short(c) = {} THEN c.size = IntSize(c.S)
    ELSE /\ c.size.S = c.S
         /\ \E l \in Short(c) : c.size.factor = <<Available(c, l), Desired(c, l)>>
         /\ \A l \in Short(c) :
               c.size.factor[1] * Desired(c, l)
                   <= Available(c, l) * c.size.factor[2]

\* C22: in stratified mode, in the draw of the test set and in every draw of
\* a fold, the labels are gone over in ascending order of their frequency,
\* the quota of a label is ceil(freq(label) * S), and the factor is the
\* least of 1 - (quota - available)/quota over the labels with fewer
\* identifiers than their quota, 1.0 when there is none.
C22_LeastShortRatio ==
    \A k \in DOMAIN calls :
        args.sampling = "stratified" =>
            /\ \A i, j \in DOMAIN calls[k].fdist :
                  i < j => FdistCount(calls[k].fdist,
                                      SortedLabels(calls[k].fdist)[i])
                           <= FdistCount(calls[k].fdist,
                                         SortedLabels(calls[k].fdist)[j])
            /\ calls[k].outcome = "returned" => LeastRatio(calls[k])
            /\ calls[k].outcome # "returned" => Short(calls[k]) # {}

\* a stratified pass returned with two labels short by different ratios
C22_Witness ==
    \E k \in DOMAIN calls :
        /\ args.sampling = "stratified"
        /\ calls[k].outcome = "returned"
        /\ \E l, m \in Short(calls[k]) :
              Available(calls[k], l) * Desired(calls[k], m)
                  < Available(calls[k], m) * Desired(calls[k], l)
        /\ FactorLess(calls[k].size.factor, One)

\* the identifiers of a label among those a pass returned
Drawn(c, l) == Cardinality({j \in DOMAIN c.ids : c.dict[c.ids[j]] = l})

\* ceil(freq(l) * S_eff), S_eff being S, or factor*S after a shrink
DesiredOfShrunk(c, l) ==
    CHOOSE q \in 0..c.S :
        /\ q * FdistN(c.fdist) * c.size.factor[2]
               >= FdistCount(c.fdist, l) * c.S * c.size.factor[1]
        /\ q > 0 => (q - 1) * FdistN(c.fdist) * c.size.factor[2]
                        < FdistCount(c.fdist, l) * c.S * c.size.factor[1]

FirstLabel(c) == SortedLabels(c.fdist)[1]

\* min(ceil(S / number of labels), identifiers available for the first label)
NLabelMin(c) ==
    Min(CHOOSE q \in 0..c.S :
            /\ q * Len(c.fdist) >= c.S
            /\ q > 0 => (q - 1) * Len(c.fdist) < c.S,
        Available(c, FirstLabel(c)))

\* what a label contributes to an even draw
Contribution(c, l) == Min(NLabelMin(c), Available(c, l))

\* what all the labels contribute together
Contributed(c) ==
    Cardinality({p \in CallLabels(c) \X (1..NLabelMin(c)) :
                    p[2] <= Contribution(c, p[1])})

\* the even draws of a fold that returned
EvenFolds ==
    {k \in DOMAIN calls : /\ args.sampling = "even"
                          /\ calls[k].op = "fold"
                          /\ calls[k].outcome = "returned"}

\* the draw of the documented example: 90 and 10 identifiers, 20 asked
IsExample(c) ==
    /\ c.S = 20
    /\ {<<c.fdist[e].label, c.fdist[e].count>> : e \in DOMAIN c.fdist}
           = {<<1, 90>>, <<2, 10>>}
    /\ Available(c, 1) = 90
    /\ Available(c, 2) = 10

\* C24 as stated: in even mode every label has min(n_label_min, its
\* available identifiers) identifiers in the fold, n_label_min being
\* min(ceil(S / number of labels), available) of the first label in
\* ascending order of frequency; labels {A: 90, B: 10} and a size of 20
\* give 10 of A and 10 of B.
C24_EvenBucketsEqual ==
    \A k \in EvenFolds :
        /\ \A l \in CallLabels(calls[k]) :
              Drawn(calls[k], l) = Contribution(calls[k], l)
        /\ IsExample(calls[k]) =>
              Drawn(calls[k], 1) = 10 /\ Drawn(calls[k], 2) = 10

\* C24: in even mode every label contributes min(n_label_min, its available
\* identifiers) to the draw, n_label_min being min(ceil(S / number of
\* labels), available) of the first label in ascending order of frequency;
\* the fold is what is contributed, cut to S identifiers after a shuffle
\* when it is more: a label has at most its contribution in the fold, and
\* exactly its contribution when the contributions together are no more
\* than S; labels {A: 90, B: 10} and a size of 20 give 10 of A and 10 of B.
C24_EvenBucketsCapped ==
    \A k \in EvenFolds :
        /\ \A l \in CallLabels(calls[k]) :
              Drawn(calls[k], l) <= Contribution(calls[k], l)
        /\ Len(calls[k].ids) = Min(calls[k].S, Contributed(calls[k]))
        /\ Contributed(calls[k]) <= calls[k].S =>
              \A l \in CallLabels(calls[k]) :
                  Drawn(calls[k], l) = Contribution(calls[k], l)
        /\ IsExample(calls[k]) =>
              Drawn(calls[k], 1) = 10 /\ Drawn(calls[k], 2) = 10

\* the fold of the documented example was drawn
C24_Witness ==
    \E k \in EvenFolds :
        /\ IsExample(calls[k])
        /\ Len(calls[k].ids) = 20
        /\ Drawn(calls[k], 1) = 10
        /\ Drawn(calls[k], 2) = 10

\* the identifiers the removal of the test set takes out of the pool
TestIdsInPool == IF GamesInCommon THEN Range(test_set) ELSE {}

\* C25: the mapping and the frequency table of the test set are kept as the
\* training pool only when the test games are the training games; when the
\* games differ, overlapping or not, nothing is kept, the pool and the
\* table come from a query over the training games alone, and at no time
\* does the pool hold an identifier that no document of the training games
\* has.
C25_CacheOnlyIfSameGames ==
    /\ DOMAIN id_strings_labels \subseteq TrainingIds
    /\ (pc = "distributional_info" /\ ~GamesEqual) =>
           id_strings_labels = <<>> /\ labels_fdist = <<>>
    /\ (pc = "distributional_info" /\ GamesEqual /\ TestCalls # {}) =>
           /\ id_strings_labels = calls[1].dict
           /\ labels_fdist = calls[1].fdist
    /\ (PoolBuilt /\ ~GamesEqual) =>
           /\ \A l \in Labels :
                 FdistCount(labels_fdist, l) = Cardinality(Queried(l))
           /\ FoldCalls = {} =>
                 DOMAIN id_strings_labels = TrainingIds \ TestIdsInPool

\* the test games are the training games and one more, the corpus has a
\* document of that game, a test set was drawn and then a fold
C25_Witness ==
    /\ ~GamesEqual
    /\ GamesInCommon
    /\ \E i \in DOMAIN db : db[i].game \notin args.games
    /\ test_set # <<>>
    /\ \E k \in FoldCalls : calls[k].ids # <<>>
    /\ pc = "done"

\* the frequency table as a collection read in the opposite order builds it
Reversed(fd) == [e \in DOMAIN fd |-> fd[Len(fd) + 1 - e]]

\* the pass of a call made again on the same pool, with the frequency table
\* in the given order
Redo(c, fd) ==
    IF c.op = "test"
    THEN make_test_set(c.dict, fd, c.S, args.sampling, float_index)
    ELSE generate_training_fold(c.dict, fd, c.S, c.n_folds_collected,
                                c.n_folds_needed, args.sampling, float_index)

\* C26: a construction on documents with identifiers of their own is
\* deterministic and does not depend on the order in which the collection
\* returns the documents: every pass starts its
\* shuffles from the same seed on sorted identifiers, so that a pass made
\* on the same pool returns the same identifiers in the same order when
\* the documents, and with them the labels of the frequency table, come in
\* another order.
C26_SameWhateverTheOrder ==
    UniqueIds => \A k \in DOMAIN calls :
        /\ Redo(calls[k], calls[k].fdist).outcome = calls[k].outcome
        /\ Redo(calls[k], calls[k].fdist).ids = calls[k].ids
        /\ Redo(calls[k], Reversed(calls[k].fdist)).outcome = calls[k].outcome
        /\ Redo(calls[k], Reversed(calls[k].fdist)).ids = calls[k].ids

\* a fold draw is made in this step
FoldDraw == Len(calls') = Len(calls) + 1 /\ calls'[Len(calls')].op = "fold"

\* the draw of this step raised an error or returned no identifier
DrawCameToNothing ==
    \/ calls'[Len(calls')].outcome # "returned"
    \/ calls'[Len(calls')].ids = <<>>

\* C27: a fold draw that raises an error or returns an empty fold leaves
\* the pool and the frequency table as they were; once the pool is built it
\* changes only in a fold draw that returns identifiers, and the frequency
\* table not at all.
C27_FailedDrawKeepsPool ==
    [][/\ (FoldDraw /\ DrawCameToNothing) =>
              /\ id_strings_labels' = id_strings_labels
              /\ labels_fdist' = labels_fdist
       /\ (PoolBuilt /\ id_strings_labels' # id_strings_labels) =>
              /\ FoldDraw
              /\ ~DrawCameToNothing
              /\ labels_fdist' = labels_fdist]_vars

\* a draw raised an error although the pool still had identifiers, after a
\* fold was taken from it
C27_Witness ==
    /\ pc = "raised"
    /\ \E k \in FoldCalls :
          /\ k = Len(calls)
          /\ calls[k].outcome # "returned"
          /\ DOMAIN calls[k].dict # {}
          /\ id_strings_labels = calls[k].dict
          /\ \E m \in FoldCalls : m < k /\ calls[m].ids # <<>>

\* C28: when one fold is all a dataset needs, a stratified fold draw is not
\* turned down and does not return early on account of its shrink: whatever
\* the factor, it draws against factor*S and returns the fold.
C28_OnlyFoldNeverRejected ==
    \A k \in FoldCalls :
        (args.sampling = "stratified" /\ calls[k].n_folds_needed = 1) =>
            /\ calls[k].outcome = "returned"
            /\ LeastRatio(calls[k])
            /\ \A l \in CallLabels(calls[k]) :
                  Drawn(calls[k], l) <= Available(calls[k], l)

\* C29: a construction with folds = 0 and arguments that are valid makes no
\* draw of a training fold, builds the grid-search dataset when one is
\* asked for, and, once that is done, completes without error with a main
\* training dataset that is empty.
C29_NoFoldsCompletes ==
    /\ [](args.folds = 0 =>
            /\ \A k \in FoldCalls : calls[k].grid_search
            /\ (pc \in {"num_datasets", "done"}
                /\ args.grid_search_folds # 0) => ~grid_search_set.none)
    /\ [][(args.folds = 0 /\ pc = "num_datasets") =>
              /\ pc' = "done"
              /\ error' = "none"
              /\ training_set'.folds = <<>>
              /\ num_datasets' = 0]_vars

\* the identifiers of label l among the first n yielded
YieldedOf(n, l) ==
    {k \in 1..n : generator.id_strings_labels_dict[generator.yielded[k]] = l}

\* the labels that have identifiers left after the first n yielded
LabelsLeft(n) ==
    {generator.id_strings_labels_dict[id] :
        id \in DOMAIN generator.id_strings_labels_dict
               \ {generator.yielded[k] : k \in 1..n}}

Balanced(n) ==
    \A l, m \in LabelsLeft(n) :
        /\ Cardinality(YieldedOf(n, l)) - Cardinality(YieldedOf(n, m)) <= 1
        /\ Cardinality(YieldedOf(n, m)) - Cardinality(YieldedOf(n, l)) <= 1

RoundRobin ==
    generator.state \in {"running", "looping", "done"} =>
        /\ NoDuplicates(generator.yielded)
        /\ \A k \in DOMAIN generator.yielded :
              generator.yielded[k] \in DOMAIN generator.id_strings_labels_dict
        /\ \A n \in 0..Len(generator.yielded) : Balanced(n)
        /\ generator.state = "done" =>
              {generator.yielded[k] : k \in DOMAIN generator.yielded}
                 = DOMAIN generator.id_strings_labels_dict

\* C30: evenly_distribute_samples terminates and yields every identifier
\* of the distribution index exactly once, and in every prefix of what it
\* yielded the numbers of identifiers yielded for any two labels that
\* still have identifiers left differ by at most one
C30_RoundRobinToTheEnd ==
    /\ []RoundRobin
    /\ (generator.state = "running") ~> (generator.state = "done")

\* exhausted after four identifiers of two labels, three of one label and
\* one of the other: the last two rounds had one label left to visit
C30_Witness ==
    /\ generator.state = "done"
    /\ Len(generator.yielded) = 4
    /\ Len(generator.labels) = 2
    /\ \E l \in LabelsLeft(0) : Cardinality(YieldedOf(4, l)) = 1

====
